---- MODULE Spec2Model ----
(***************************************************************************)
(* Model of basketball.py: a provisioning script that creates an S3        *)
(* bucket, fetches NBA player records, uploads them as JSON lines, ensures *)
(* a Glue database and table, and issues an Athena probe query.            *)
(*                                                                         *)
(* A run of the script is a process with a program counter.  The cloud     *)
(* services (S3, Glue) are shared state; each API call either succeeds or  *)
(* raises a botocore ClientError with an error code.                       *)
(***************************************************************************)
EXTENDS Integers, Sequences, FiniteSets, TLC

----------------------------------------------------------------------------
(* Bounds of the model *)

\* longest list of records the sports-data API returns
MaxRecords == 2
\* how many times the script is invoked one after the other
MaxRuns == 2

----------------------------------------------------------------------------
(* Module-level configuration of the script *)

bucket_name == "sports-analytics-data-lake-osagie123"
database_name == "glue_nba_data_lake"
table_name == "nba_players"
file_key == "raw-data/nba_player_data.jsonl"

\* the two script invocations that may overlap in time
Procs == {"run1", "run2"}

\* Python's None, and a list value, as fetch_nba_data returns them
None == [is_none |-> TRUE, list |-> <<>>]
List(arr) == [is_none |-> FALSE, list |-> arr]

\* the error code of a call that returned without raising
NoError == "ok"

----------------------------------------------------------------------------
(* Text: a Python str is a sequence of one-character strings *)

LF == "\n"
QUOTE == "\""
BACKSLASH == "\\"

RECURSIVE Concat(_)
\* "".join(parts)
Concat(parts) ==
    IF parts = <<>> THEN <<>> ELSE Head(parts) \o Concat(Tail(parts))

\* json.dumps escapes the characters that may not appear raw inside a string
EscapeChar(c) ==
    IF c = QUOTE THEN <<BACKSLASH, QUOTE>>
    ELSE IF c = BACKSLASH THEN <<BACKSLASH, BACKSLASH>>
    ELSE IF c = LF THEN <<BACKSLASH, "n">>
    ELSE <<c>>

\* json.dumps of a str
json_dumps_str(s) ==
    <<QUOTE>> \o Concat([i \in 1..Len(s) |-> EscapeChar(s[i])]) \o <<QUOTE>>

KeyOrder == <<"FirstName", "LastName", "Position", "Team">>

KeyText(k) ==
    CASE k = "FirstName" -> <<"F","i","r","s","t","N","a","m","e">>
      [] k = "LastName"  -> <<"L","a","s","t","N","a","m","e">>
      [] k = "Position"  -> <<"P","o","s","i","t","i","o","n">>
      [] k = "Team"      -> <<"T","e","a","m">>

\* sep.join(items); the variant writes the separator after every item
MutStrJoinTrailing(sep, items) ==
    Concat([i \in 1..Len(items) |-> items[i] \o sep])

str_join(sep, items) ==
    Concat([i \in 1..Len(items) |->
              IF i = 1 THEN items[i] ELSE sep \o items[i]])

\* json.dumps of one record (a dict): {"k": "v", "k": "v", ...}
json_dumps(record) ==
    <<"{">> \o
    str_join(<<",", " ">>,
             [i \in 1..Len(KeyOrder) |->
                json_dumps_str(KeyText(KeyOrder[i])) \o <<":", " ">>
                  \o json_dumps_str(record[KeyOrder[i]])])
    \o <<"}">>

\* "\n".join(json.dumps(record) for record in data)
JsonLines(data) ==
    str_join(<<LF>>, [i \in 1..Len(data) |-> json_dumps(data[i])])

\* the records the API can return
PlayerA == [FirstName |-> <<"A">>, LastName |-> <<"B">>,
            Position |-> <<"G">>, Team |-> <<"X">>]
PlayerOdd == [FirstName |-> <<"J", LF>>, LastName |-> <<QUOTE, "O">>,
              Position |-> <<BACKSLASH>>, Team |-> <<>>]
Records == {PlayerA, PlayerOdd}

RECURSIVE SeqsUpTo(_, _)
SeqsUpTo(S, n) ==
    IF n = 0 THEN {<<>>}
    ELSE LET shorter == SeqsUpTo(S, n - 1)
         IN  shorter \cup {Append(s, x) : s \in shorter, x \in S}

\* what response.json() can be: a JSON array of records
JsonArrays == SeqsUpTo(Records, MaxRecords)

\* `if nba_data:` is false for None and for the empty list; the variant is
\* `if nba_data is not None:`
MutTruthyNotNone(data) == ~data.is_none

Truthy(data) == ~data.is_none /\ data.list # <<>>

----------------------------------------------------------------------------
(* The cloud services the script talks to.  Every operation returns the    *)
(* set of outcomes the service can produce: an error code (NoError when    *)
(* the call returns) and the service state after the call.                 *)

\* names that can be present in the Glue catalog
DbNames == {database_name, "GLUE_NBA_DATA_LAKE"}
TableNames == {table_name, "NBA_PLAYERS"}

\* DatabaseInput of create_database
NbaDatabaseInput == [Name |-> database_name, Description |-> "NBA Data Lake"]

\* TableInput of create_table
NbaTableInput ==
    [Name |-> table_name,
     Columns |-> <<"FirstName", "LastName", "Position", "Team">>,
     Location |-> <<"s3", bucket_name, "raw-data/">>,
     TableType |-> "EXTERNAL_TABLE"]

\* a table somebody else registered earlier, with another schema and place
LegacyTableInput(name) ==
    [Name |-> name,
     Columns |-> <<"player_id">>,
     Location |-> <<"s3", "old-bucket", "players/">>,
     TableType |-> "EXTERNAL_TABLE"]

LegacyDatabaseInput(name) == [Name |-> name, Description |-> "legacy"]

\* f with key k set to v
Put(f, k, v) == [x \in DOMAIN f \cup {k} |-> IF x = k THEN v ELSE f[x]]

EmptyMap == [x \in {} |-> <<>>]

\* s3_client.create_bucket(Bucket=name)
S3CreateBucket(bs, name) ==
    (IF name \in bs
       THEN {[code |-> NoError, buckets |-> bs],
             [code |-> "BucketAlreadyOwnedByYou", buckets |-> bs]}
       ELSE {[code |-> NoError, buckets |-> bs \cup {name}]})
    \cup {[code |-> "AccessDenied", buckets |-> bs]}

\* s3_client.put_object(Bucket=bucket, Key=key, Body=body)
S3PutObject(bs, objs, bucket, key, body) ==
    (IF bucket \in bs
       THEN {[code |-> NoError, objects |-> Put(objs, key, body)]}
       ELSE {[code |-> "NoSuchBucket", objects |-> objs]})
    \cup {[code |-> "AccessDenied", objects |-> objs]}

\* glue_client.get_databases()["DatabaseList"], as the set of names
GlueGetDatabases(dbs) ==
    {[code |-> NoError, names |-> DOMAIN dbs],
     [code |-> "AccessDeniedException", names |-> {}]}

\* a glue_client database call: create_database, update_database
GlueDatabaseCall(op, dbs, input) ==
    (CASE op = "create_database" ->
            IF input.Name \in DOMAIN dbs
              THEN {[code |-> "AlreadyExistsException", databases |-> dbs]}
              ELSE {[code |-> NoError, databases |-> Put(dbs, input.Name, input)]}
       [] op = "update_database" ->
            IF input.Name \in DOMAIN dbs
              THEN {[code |-> NoError, databases |-> Put(dbs, input.Name, input)]}
              ELSE {[code |-> "EntityNotFoundException", databases |-> dbs]})
    \cup {[code |-> "AccessDeniedException", databases |-> dbs]}

\* glue_client.get_tables(DatabaseName=db)["TableList"], as the set of names
GlueGetTables(dbs, tbls, db) ==
    (IF db \in DOMAIN dbs
       THEN {[code |-> NoError,
              names |-> {k[2] : k \in {x \in DOMAIN tbls : x[1] = db}}]}
       ELSE {[code |-> "EntityNotFoundException", names |-> {}]})
    \cup {[code |-> "AccessDeniedException", names |-> {}]}

\* a glue_client table call: create_table, update_table
GlueTableCall(op, dbs, tbls, db, input) ==
    (IF db \notin DOMAIN dbs
       THEN {[code |-> "EntityNotFoundException", tables |-> tbls]}
     ELSE CASE op = "create_table" ->
            IF <<db, input.Name>> \in DOMAIN tbls
              THEN {[code |-> "AlreadyExistsException", tables |-> tbls]}
              ELSE {[code |-> NoError,
                     tables |-> Put(tbls, <<db, input.Name>>, input)]}
       [] op = "update_table" ->
            IF <<db, input.Name>> \in DOMAIN tbls
              THEN {[code |-> NoError,
                     tables |-> Put(tbls, <<db, input.Name>>, input)]}
              ELSE {[code |-> "EntityNotFoundException", tables |-> tbls]})
    \cup {[code |-> "AccessDeniedException", tables |-> tbls]}

\* athena_client.start_query_execution(...)
AthenaStartQueryExecution == {NoError, "InvalidRequestException"}

\* requests.get(...) followed by raise_for_status() and json()
HttpGet ==
    {[status |-> "ConnectionError", json |-> None],
     [status |-> "HTTPError", json |-> None]}
    \cup {[status |-> "200", json |-> List(arr)] : arr \in JsonArrays}

----------------------------------------------------------------------------
(* State *)

VARIABLES
    buckets,             \* S3: names of the buckets the caller owns
    api,                 \* the responses the configured endpoint can give
    objects,             \* S3: key -> body, in the bucket bucket_name
    databases,           \* Glue: database name -> DatabaseInput
    tables,              \* Glue: <<database name, table name>> -> TableInput
    runs,                \* how many times the script has been started
    pc,                  \* per run: the statement about to execute
    nba_data,            \* per run: global nba_data
    json_lines,          \* per run: the Body handed to put_object
    existing_databases,  \* per run: names in the DatabaseList read
    existing_tables,     \* per run: names in the TableList read
    stdout,              \* per run: the lines printed
    stderr,              \* per run: the uncaught exception, if any
    calls                \* per run: the external calls issued, in order

cloud == <<api, buckets, objects, databases, tables>>
locals == <<pc, nba_data, json_lines, existing_databases, existing_tables,
            stdout, stderr, calls>>
vars == <<api, buckets, objects, databases, tables, runs, pc, nba_data,
          json_lines, existing_databases, existing_tables, stdout, stderr,
          calls>>

\* the catalogs a run can find when it starts
InitialDatabases ==
    {EmptyMap,
     [n \in {"GLUE_NBA_DATA_LAKE"} |-> LegacyDatabaseInput(n)],
     [n \in {database_name} |-> NbaDatabaseInput],
     [n \in DbNames |-> LegacyDatabaseInput(n)]}

InitialTables ==
    {EmptyMap,
     [k \in {<<database_name, "NBA_PLAYERS">>} |-> LegacyTableInput(k[2])],
     [k \in {<<database_name, table_name>>} |-> NbaTableInput],
     [k \in {database_name} \X TableNames |-> LegacyTableInput(k[2])]}

\* the state of one run at the first statement of the script
StartOfScript(p) ==
    /\ pc' = [pc EXCEPT ![p] = "create_s3_bucket"]
    /\ nba_data' = [nba_data EXCEPT ![p] = None]
    /\ json_lines' = [json_lines EXCEPT ![p] = <<>>]
    /\ existing_databases' = [existing_databases EXCEPT ![p] = {}]
    /\ existing_tables' = [existing_tables EXCEPT ![p] = {}]
    /\ stdout' = [stdout EXCEPT ![p] = <<"Setting up data lake">>]
    /\ stderr' = [stderr EXCEPT ![p] = <<>>]
    /\ calls' = [calls EXCEPT ![p] = <<>>]

Init ==
    /\ api = HttpGet
    /\ buckets \in {{}, {bucket_name}}
    /\ objects \in {EmptyMap, [k \in {file_key} |-> JsonLines(<<PlayerA>>)]}
    /\ bucket_name \notin buckets => objects = EmptyMap
    /\ databases \in InitialDatabases
    /\ tables \in InitialTables
    /\ database_name \notin DOMAIN databases => tables = EmptyMap
    /\ runs = 1
    /\ pc = [p \in Procs |-> "create_s3_bucket"]
    /\ nba_data = [p \in Procs |-> None]
    /\ json_lines = [p \in Procs |-> <<>>]
    /\ existing_databases = [p \in Procs |-> {}]
    /\ existing_tables = [p \in Procs |-> {}]
    /\ stdout = [p \in Procs |-> <<"Setting up data lake">>]
    /\ stderr = [p \in Procs |-> <<>>]
    /\ calls = [p \in Procs |-> <<>>]

----------------------------------------------------------------------------
(* Steps of the script *)

\* the run sequence at the bottom of the script: the statement after `step`;
\* the variant calls create_glue_table before create_glue_database
MutSequelTableFirst(step) ==
    CASE step = "create_s3_bucket" -> "fetch_nba_data"
      [] step = "fetch_nba_data" -> "upload"
      [] step = "upload" -> "create_glue_table"
      [] step = "create_glue_table" -> "create_glue_database"
      [] step = "create_glue_database" -> "configure_athena"
      [] step = "configure_athena" -> "done"

Sequel(step) ==
    CASE step = "create_s3_bucket" -> "fetch_nba_data"
      [] step = "fetch_nba_data" -> "upload"
      [] step = "upload" -> "create_glue_database"
      [] step = "create_glue_database" -> "create_glue_table"
      [] step = "create_glue_table" -> "configure_athena"
      [] step = "configure_athena" -> "done"

\* run p prints msg (nothing when msg is <<>>), issues call, and goes on at
\* `next`, unless the call raised an exception no handler catches
Proceed(p, call, code, msg, caught, next) ==
    /\ calls' = [calls EXCEPT ![p] = Append(@, call)]
    /\ IF code = NoError \/ caught
         THEN /\ pc' = [pc EXCEPT ![p] = next]
              /\ stdout' = [stdout EXCEPT ![p] = @ \o msg]
              /\ stderr' = stderr
         ELSE /\ pc' = [pc EXCEPT ![p] = "crashed"]
              /\ stdout' = stdout
              /\ stderr' = [stderr EXCEPT ![p] = <<"ClientError", call, code>>]

\* the except clause of create_s3_bucket: which ClientErrors it handles;
\* the variant re-raises every code but BucketAlreadyOwnedByYou
MutBucketExceptOwnedOnly(code) == code = "BucketAlreadyOwnedByYou"

create_s3_bucket_except(code) == TRUE

create_s3_bucket_print(code) ==
    IF code = NoError THEN <<"S3 bucket created successfully.">>
    ELSE IF code = "BucketAlreadyOwnedByYou"
      THEN <<"S3 bucket already exists. Skipping creation.">>
    ELSE <<"Error creating S3 bucket">>

create_s3_bucket(p) ==
    /\ pc[p] = "create_s3_bucket"
    /\ \E out \in S3CreateBucket(buckets, bucket_name) :
         /\ buckets' = out.buckets
         /\ Proceed(p, "create_bucket", out.code,
                    create_s3_bucket_print(out.code),
                    create_s3_bucket_except(out.code),
                    Sequel("create_s3_bucket"))
    /\ UNCHANGED <<api, objects, databases, tables, runs, nba_data,
                   json_lines, existing_databases, existing_tables>>

fetch_nba_data_print(status) ==
    CASE status = "200" -> "Fetched NBA data successfully."
      [] status = "ConnectionError" -> "Error fetching NBA data: ConnectionError"
      [] status = "HTTPError" -> "Error fetching NBA data: HTTPError"

fetch_nba_data(p) ==
    /\ pc[p] = "fetch_nba_data"
    /\ \E response \in api :
         /\ nba_data' = [nba_data EXCEPT ![p] = response.json]
         /\ stdout' = [stdout EXCEPT ![p] =
              Append(@, fetch_nba_data_print(response.status))]
    /\ calls' = [calls EXCEPT ![p] = Append(@, "requests.get")]
    /\ pc' = [pc EXCEPT ![p] = Sequel("fetch_nba_data")]
    /\ UNCHANGED <<cloud, runs, json_lines, existing_databases,
                   existing_tables, stderr>>

\* the except clause of upload_to_s3 and what the function prints; the
\* variant prints the success line whatever put_object answered
MutUploadPrintAlways(code) == <<"Uploaded data to S3">>

upload_to_s3_print(code) ==
    IF code = NoError THEN <<"Uploaded data to S3">>
    ELSE <<"Error uploading data to S3">>

\* `if nba_data: upload_to_s3(nba_data)`, the branch taken
upload_to_s3(p) ==
    /\ pc[p] = "upload"
    /\ Truthy(nba_data[p])
    /\ LET body == JsonLines(nba_data[p].list)
       IN  /\ json_lines' = [json_lines EXCEPT ![p] = body]
           /\ \E out \in S3PutObject(buckets, objects, bucket_name,
                                     file_key, body) :
                /\ objects' = out.objects
                /\ Proceed(p, "put_object", out.code,
                           upload_to_s3_print(out.code), TRUE,
                           Sequel("upload"))
    /\ UNCHANGED <<api, buckets, databases, tables, runs, nba_data,
                   existing_databases, existing_tables>>

\* `if nba_data:`, the branch not taken
skip_upload(p) ==
    /\ pc[p] = "upload"
    /\ ~Truthy(nba_data[p])
    /\ pc' = [pc EXCEPT ![p] = Sequel("upload")]
    /\ UNCHANGED <<cloud, runs, nba_data, json_lines, existing_databases,
                   existing_tables, stdout, stderr, calls>>

\* any(x["Name"] == name for x in listing); the variant compares the names
\* after str.lower()
Lower(n) ==
    CASE n = "GLUE_NBA_DATA_LAKE" -> "glue_nba_data_lake"
      [] n = "NBA_PLAYERS" -> "nba_players"
      [] OTHER -> n

MutNameListedIgnoreCase(names, name) ==
    \E n \in names : Lower(n) = Lower(name)

NameListed(names, name) == \E n \in names : n = name

\* the call create_glue_database makes once it has the listing; the
\* variants create without looking, or update the database that is there
MutDatabaseCallUnchecked(listed) == "create_database"

MutDatabaseCallUpdates(listed) ==
    IF listed THEN "update_database" ELSE "create_database"

glue_database_call(listed) == IF listed THEN "skip" ELSE "create_database"

\* the call create_glue_table makes once it has the listing
glue_table_call(listed) == IF listed THEN "skip" ELSE "create_table"

\* create_glue_database, up to the listing
create_glue_database_list(p) ==
    /\ pc[p] = "create_glue_database"
    /\ \E out \in GlueGetDatabases(databases) :
         /\ existing_databases' = [existing_databases EXCEPT ![p] = out.names]
         /\ Proceed(p, "get_databases", out.code, <<>>, FALSE,
                    "create_glue_database:if")
    /\ UNCHANGED <<cloud, runs, nba_data, json_lines, existing_tables>>

\* create_glue_database, from the test of the listing on
create_glue_database_if(p) ==
    /\ pc[p] = "create_glue_database:if"
    /\ LET op == glue_database_call(
                   NameListed(existing_databases[p], database_name))
       IN  IF op = "skip"
             THEN /\ pc' = [pc EXCEPT ![p] = Sequel("create_glue_database")]
                  /\ stdout' = [stdout EXCEPT ![p] = Append(@,
                       "Glue database already exists. Skipping creation.")]
                  /\ UNCHANGED <<databases, stderr, calls>>
             ELSE \E out \in GlueDatabaseCall(op, databases, NbaDatabaseInput) :
                    /\ databases' = out.databases
                    /\ Proceed(p, op, out.code,
                               <<"Glue database created successfully.">>,
                               FALSE, Sequel("create_glue_database"))
    /\ UNCHANGED <<api, buckets, objects, tables, runs, nba_data,
                   json_lines, existing_databases, existing_tables>>

\* create_glue_table, up to the listing
create_glue_table_list(p) ==
    /\ pc[p] = "create_glue_table"
    /\ \E out \in GlueGetTables(databases, tables, database_name) :
         /\ existing_tables' = [existing_tables EXCEPT ![p] = out.names]
         /\ Proceed(p, "get_tables", out.code, <<>>, FALSE,
                    "create_glue_table:if")
    /\ UNCHANGED <<cloud, runs, nba_data, json_lines, existing_databases>>

\* create_glue_table, from the test of the listing on
create_glue_table_if(p) ==
    /\ pc[p] = "create_glue_table:if"
    /\ LET op == glue_table_call(NameListed(existing_tables[p], table_name))
       IN  IF op = "skip"
             THEN /\ pc' = [pc EXCEPT ![p] = Sequel("create_glue_table")]
                  /\ stdout' = [stdout EXCEPT ![p] = Append(@,
                       "Glue table already exists. Skipping creation.")]
                  /\ UNCHANGED <<tables, stderr, calls>>
             ELSE \E out \in GlueTableCall(op, databases, tables,
                                           database_name, NbaTableInput) :
                    /\ tables' = out.tables
                    /\ Proceed(p, op, out.code,
                               <<"Glue table created successfully.">>,
                               FALSE, Sequel("create_glue_table"))
    /\ UNCHANGED <<api, buckets, objects, databases, runs, nba_data,
                   json_lines, existing_databases, existing_tables>>

configure_athena_print(code) ==
    IF code = NoError THEN "Athena output location configured successfully."
    ELSE "Error configuring Athena"

\* configure_athena, and the last print of the script
configure_athena(p) ==
    /\ pc[p] = "configure_athena"
    /\ \E code \in AthenaStartQueryExecution :
         Proceed(p, "start_query_execution", code,
                 <<configure_athena_print(code), "Data lake setup complete.">>,
                 TRUE, Sequel("configure_athena"))
    /\ UNCHANGED <<cloud, runs, nba_data, json_lines, existing_databases,
                   existing_tables>>

\* the script is invoked again once the previous invocation has exited
StartRun(p) ==
    /\ pc[p] \in {"done", "crashed"}
    /\ runs < MaxRuns
    /\ runs' = runs + 1
    /\ StartOfScript(p)
    /\ UNCHANGED cloud

----------------------------------------------------------------------------
(* Specifications *)

\* invocations one after the other
Next ==
    \/ create_s3_bucket("run1")
    \/ fetch_nba_data("run1")
    \/ upload_to_s3("run1")
    \/ skip_upload("run1")
    \/ create_glue_database_list("run1")
    \/ create_glue_database_if("run1")
    \/ create_glue_table_list("run1")
    \/ create_glue_table_if("run1")
    \/ configure_athena("run1")
    \/ StartRun("run1")

Spec == Init /\ [][Next]_vars

\* two invocations at the same time, in an account that holds nothing yet,
\* with an endpoint that serves one player or fails
ConcInit ==
    /\ api = {r \in HttpGet : r.json \in {None, List(<<PlayerA>>)}}
    /\ buckets = {}
    /\ objects = EmptyMap
    /\ databases = EmptyMap
    /\ tables = EmptyMap
    /\ runs = 1
    /\ pc = [p \in Procs |-> "create_s3_bucket"]
    /\ nba_data = [p \in Procs |-> None]
    /\ json_lines = [p \in Procs |-> <<>>]
    /\ existing_databases = [p \in Procs |-> {}]
    /\ existing_tables = [p \in Procs |-> {}]
    /\ stdout = [p \in Procs |-> <<"Setting up data lake">>]
    /\ stderr = [p \in Procs |-> <<>>]
    /\ calls = [p \in Procs |-> <<>>]

ConcNext ==
    \E p \in Procs :
        \/ create_s3_bucket(p)
        \/ fetch_nba_data(p)
        \/ upload_to_s3(p)
        \/ skip_upload(p)
        \/ create_glue_database_list(p)
        \/ create_glue_database_if(p)
        \/ create_glue_table_list(p)
        \/ create_glue_table_if(p)
        \/ configure_athena(p)

ConcSpec == ConcInit /\ [][ConcNext]_vars

----------------------------------------------------------------------------
(* Vocabulary of the properties *)

\* run p has issued the external call
Issued(p, call) == \E i \in 1..Len(calls[p]) : calls[p][i] = call

\* how many times run p has issued the external call
Count(p, call) == Cardinality({i \in 1..Len(calls[p]) : calls[p][i] = call})

\* run p has printed the line
Printed(p, line) == \E i \in 1..Len(stdout[p]) : stdout[p][i] = line

\* run p died of an uncaught ClientError raised by the call
Raised(p, call) == stderr[p] # <<>> /\ stderr[p][2] = call

\* a fetch result that is a collection holding at least one record
NonEmptyCollection(data) == ~data.is_none /\ Len(data.list) >= 1

\* run p has exited
Exited(p) == pc[p] \in {"done", "crashed"}

\* text.split("\n")
SplitLines(text) ==
    LET breaks == {i \in 1..Len(text) : text[i] = LF}
        n == Cardinality(breaks)
        \* position of the k-th newline; 0 and Len(text) + 1 bracket the text
        at(k) == IF k = 0 THEN 0
                 ELSE IF k = n + 1 THEN Len(text) + 1
                 ELSE CHOOSE b \in breaks :
                        Cardinality({c \in breaks : c < b}) = k - 1
    IN  [k \in 1..(n + 1) |-> SubSeq(text, at(k - 1) + 1, at(k) - 1)]

\* json.dumps of every record the endpoint can serve
Serialized == [r \in Records |-> json_dumps(r)]

\* position of each external call in the order the script prescribes
Rank(call) ==
    CASE call = "create_bucket" -> 1
      [] call = "requests.get" -> 2
      [] call = "put_object" -> 3
      [] call = "get_databases" -> 4
      [] call = "create_database" -> 5
      [] call = "get_tables" -> 6
      [] call = "create_table" -> 7
      [] call = "start_query_execution" -> 8
      [] OTHER -> 0

\* run p is past the `if` of create_glue_database / create_glue_table
PastDatabaseIf(p) ==
    \/ pc[p] \in {"create_glue_table", "create_glue_table:if",
                  "configure_athena", "done"}
    \/ Raised(p, "create_database") \/ Raised(p, "get_tables")
    \/ Raised(p, "create_table")

PastTableIf(p) ==
    \/ pc[p] \in {"configure_athena", "done"}
    \/ Raised(p, "create_table")

----------------------------------------------------------------------------
(* Properties *)

\* C1: no step of a run is fatal: whichever step fails with a client error,
\* the error is caught there and the run goes on to its end, so no run ever
\* dies of an uncaught exception.
C1_NoStepFatal == \A p \in Procs : pc[p] # "crashed" /\ stderr[p] = <<>>

\* C2: in every run put_object is issued if and only if the fetch returned
\* a non-empty collection; after an HTTP error status or a transport fault
\* no put is issued.
C2_UploadIffFetched ==
    \A p \in Procs :
        /\ Issued(p, "put_object") => NonEmptyCollection(nba_data[p])
        /\ pc[p] \notin {"create_s3_bucket", "fetch_nba_data", "upload"}
             => (Issued(p, "put_object") <=> NonEmptyCollection(nba_data[p]))
        /\ (\/ Printed(p, "Error fetching NBA data: HTTPError")
            \/ Printed(p, "Error fetching NBA data: ConnectionError"))
             => ~Issued(p, "put_object") /\ nba_data[p] = None

C2_Witness ==
    /\ pc["run1"] = "done"
    /\ Issued("run1", "put_object")
    /\ nba_data["run1"] = List(<<PlayerA, PlayerOdd>>)

\* C3: in create_glue_database and in create_glue_table, once the listing
\* has returned, the create call is issued if and only if the listing holds
\* no entry whose name is exactly the configured name.
C3_CreateIffNotListed ==
    \A p \in Procs :
        /\ Issued(p, "create_database") => database_name \notin existing_databases[p]
        /\ Issued(p, "create_table") => table_name \notin existing_tables[p]
        /\ PastDatabaseIf(p) =>
             (Issued(p, "create_database")
                <=> database_name \notin existing_databases[p])
        /\ PastTableIf(p) =>
             (Issued(p, "create_table") <=> table_name \notin existing_tables[p])

C3_Witness ==
    /\ pc["run1"] = "done"
    /\ existing_databases["run1"] = DbNames
    /\ ~Issued("run1", "create_database")
    /\ existing_tables["run1"] = {"NBA_PLAYERS"}
    /\ Issued("run1", "create_table")

\* C4: create_s3_bucket never raises, whatever client error create_bucket
\* answers with; it leaves the set of buckets as it is when the bucket is
\* already owned, and a call that succeeds on an absent bucket adds it.
C4_EnsureBucketIdempotent ==
    [][\A p \in Procs :
         (pc[p] = "create_s3_bucket" /\ pc'[p] # pc[p]) =>
            /\ pc'[p] = "fetch_nba_data"
            /\ stderr'[p] = <<>>
            /\ bucket_name \in buckets => buckets' = buckets
            /\ Printed(p, "S3 bucket created successfully.")'
                 => buckets' = buckets \cup {bucket_name}
            /\ Printed(p, "S3 bucket already exists. Skipping creation.")'
                 => bucket_name \in buckets /\ buckets' = buckets]_vars

C4_Witness ==
    /\ runs = 2
    /\ pc["run1"] = "fetch_nba_data"
    /\ Printed("run1", "S3 bucket already exists. Skipping creation.")
    /\ bucket_name \in buckets

\* C5: a run whose fetch failed or returned an empty array issues no put
\* and still attempts the database listing, the table listing and the probe
\* query, and reaches the end of the script.
C5_CatalogStepsUnconditional ==
    \A p \in Procs :
        (Exited(p) /\ ~NonEmptyCollection(nba_data[p])) =>
            /\ ~Issued(p, "put_object")
            /\ Issued(p, "get_databases")
            /\ Issued(p, "get_tables")
            /\ Issued(p, "start_query_execution")
            /\ pc[p] = "done"

\* C6: for n >= 1 fetched records upload_to_s3 issues one put whose body
\* splits at newlines into exactly n lines, the i-th being json.dumps of
\* the i-th record; a put that succeeds stores that body under the key.
C6_BodyIsJsonLines ==
    \A p \in Procs :
        Issued(p, "put_object") =>
            LET data == nba_data[p].list
            IN  /\ Count(p, "put_object") = 1
                /\ Len(data) >= 1
                /\ SplitLines(json_lines[p])
                     = [i \in 1..Len(data) |-> Serialized[data[i]]]
                /\ json_lines[p][Len(json_lines[p])] # LF
                /\ Len(data) = 1 => json_lines[p] = Serialized[data[1]]
                /\ (p = "run1" /\ Printed(p, "Uploaded data to S3"))
                     => objects[file_key] = json_lines[p]

C6_Witness ==
    /\ Printed("run1", "Uploaded data to S3")
    /\ nba_data["run1"] = List(<<PlayerOdd, PlayerOdd>>)
    /\ objects[file_key] = json_dumps(PlayerOdd) \o <<LF>> \o json_dumps(PlayerOdd)

\* the external calls the script can issue
ScriptCalls ==
    {"create_bucket", "requests.get", "put_object", "get_databases",
     "create_database", "get_tables", "create_table", "start_query_execution"}

\* C7: no step changes or removes a database or a table that is present,
\* none removes a bucket, and no call other than the creates, the listings,
\* the fetch, the put and the probe query is ever issued.
C7_ExistingNeverModified ==
    [][/\ \A n \in DOMAIN databases :
            n \in DOMAIN databases' /\ databases'[n] = databases[n]
       /\ \A k \in DOMAIN tables :
            k \in DOMAIN tables' /\ tables'[k] = tables[k]
       /\ buckets \subseteq buckets'
       /\ \A p \in Procs : \A i \in 1..Len(calls'[p]) :
            calls'[p][i] \in ScriptCalls]_vars

C7_Witness ==
    /\ pc["run1"] = "done"
    /\ Printed("run1", "Glue database already exists. Skipping creation.")
    /\ Printed("run1", "Glue table already exists. Skipping creation.")
    /\ databases[database_name] = LegacyDatabaseInput(database_name)
    /\ tables[<<database_name, table_name>>] = LegacyTableInput(table_name)

\* C8: the external calls of a run occur in the order create_bucket, get,
\* put_object, get_databases, create_database, get_tables, create_table,
\* start_query_execution, each at most once.
C8_LinearOrder ==
    \A p \in Procs :
        /\ \A i \in 1..Len(calls[p]) : Rank(calls[p][i]) >= 1
        /\ \A i, j \in 1..Len(calls[p]) :
             i < j => Rank(calls[p][i]) < Rank(calls[p][j])

C8_Witness ==
    /\ pc["run1"] = "done"
    /\ calls["run1"] =
         <<"create_bucket", "requests.get", "put_object", "get_databases",
           "create_database", "get_tables", "create_table",
           "start_query_execution">>

\* C9: with two runs at the same time, a run's create_database (or
\* create_table) is refused with AlreadyExistsException only when its own
\* listing did not show the name and the other run created the entity in
\* between; the interleaving in which both runs see the database absent
\* and both issue create_database is reachable.
C9_RaceOnStaleListing ==
    \A p \in Procs :
        /\ stderr[p] = <<"ClientError", "create_database", "AlreadyExistsException">>
             => /\ database_name \notin existing_databases[p]
                /\ \E q \in Procs \ {p} :
                     /\ Issued(q, "create_database")
                     /\ Printed(q, "Glue database created successfully.")
        /\ stderr[p] = <<"ClientError", "create_table", "AlreadyExistsException">>
             => /\ table_name \notin existing_tables[p]
                /\ \E q \in Procs \ {p} :
                     /\ Issued(q, "create_table")
                     /\ Printed(q, "Glue table created successfully.")

C9_Witness ==
    /\ Issued("run1", "create_database")
    /\ Issued("run2", "create_database")
    /\ database_name \notin existing_databases["run1"]
    /\ database_name \notin existing_databases["run2"]
    /\ Printed("run1", "Glue database created successfully.")
    /\ stderr["run2"] = <<"ClientError", "create_database", "AlreadyExistsException">>

\* run p prints "Uploaded data to S3" in this step
Uploads(p) ==
    /\ ~Printed(p, "Uploaded data to S3")
    /\ Printed(p, "Uploaded data to S3")'

\* C10: the object under the key changes only in the step in which a run
\* with a non-empty fetch has its put succeed, and then holds exactly that
\* run's records; every other step, of a run whose fetch failed or was
\* empty or whose put failed, leaves it as it was.
C10_LastWriterWins ==
    [][IF \E p \in Procs : Uploads(p)
         THEN \E p \in Procs :
                /\ Uploads(p)
                /\ NonEmptyCollection(nba_data[p])
                /\ DOMAIN objects' = {file_key}
                /\ objects'[file_key] = JsonLines(nba_data[p].list)
         ELSE objects' = objects]_vars

C10_Witness ==
    /\ runs = 2
    /\ pc["run1"] = "done"
    /\ nba_data["run1"] = None
    /\ file_key \in DOMAIN objects
    /\ objects[file_key] = JsonLines(<<PlayerOdd>>)
    /\ <<database_name, table_name>> \in DOMAIN tables

====
